---- MODULE Spec2Model ----
(***************************************************************************)
(* Phase orchestration of ContentDeveloperOrchestrator                     *)
(* (src/content_developer/orchestrator/orchestrator.py).                   *)
(*                                                                         *)
(* Strings are sequences of one-character strings, so that str.isdigit,    *)
(* int(), str.startswith and slicing are computed character by character.  *)
(* Confidences are integers in hundredths (0.70 is 70).                    *)
(***************************************************************************)
EXTENDS Integers, Sequences, FiniteSets, TLC

\* ---------------------------------------------------------------- bounds
MaxSelLen == 3
MaxDecisions == 2
MaxPathLen == 5
MaxApplications == 2

\* ------------------------------------------------------ program constants
MAX_PHASES == 4
CONF_THRESHOLD == 70

\* ---------------------------------------------------------------- strings
AllStr == <<"a", "l", "l">>

\* characters outside ASCII, written as their code points
ArabicIndicThree == "u0663"
FullwidthThree == "uFF13"
SuperscriptTwo == "u00B2"
CircledOne == "u2460"

\* the characters int() reads as a decimal digit
DecimalChars ==
  {"0", "1", "2", "3", "4", "5", "6", "7", "8", "9", ArabicIndicThree, FullwidthThree}

\* the characters str.isdigit() accepts: the decimal digits and the
\* digit-like characters int() does not read
DigitChars == DecimalChars \cup {SuperscriptTwo, CircledOne}

SelChars == {"0", "1", "3", "4", "a", "l", ",", ArabicIndicThree, SuperscriptTwo}

DigitVal(c) ==
  CASE c = "0" -> 0 [] c = "1" -> 1 [] c = "2" -> 2 [] c = "3" -> 3
    [] c = "4" -> 4 [] c = "5" -> 5 [] c = "6" -> 6 [] c = "7" -> 7
    [] c = "8" -> 8 [] c = "9" -> 9
    [] c = ArabicIndicThree -> 3 [] c = FullwidthThree -> 3

StringsUpTo(chars, n) == UNION {[1..k -> chars] : k \in 0..n}

\* int() raising ValueError, in place of the value it would return
ValueError == -1

\* p.isdigit() for one character
IsDigitChar(c) == c \in DigitChars

\* self.config.phases.isdigit(): non-empty and every character a digit
IsDigitStr(s) == Len(s) > 0 /\ \A i \in DOMAIN s : IsDigitChar(s[i])

RECURSIVE DecimalOf(_)
DecimalOf(s) ==
  IF s = <<>> THEN 0
  ELSE 10 * DecimalOf(SubSeq(s, 1, Len(s) - 1)) + DigitVal(s[Len(s)])

\* int(self.config.phases) for a digit string: its value, or ValueError when
\* one of its characters is not a decimal digit
IntOf(s) ==
  IF \E i \in DOMAIN s : s[i] \notin DecimalChars THEN ValueError
  ELSE DecimalOf(s)

\* any(p.isdigit() for p in self.config.phases)
AnyDigit(s) == \E i \in DOMAIN s : IsDigitChar(s[i])

SetMax(S) == CHOOSE m \in S : \A x \in S : x <= m

\* max(int(p) for p in self.config.phases if p.isdigit()): int(p) raises on
\* a digit-like character that is not a decimal digit
MaxDigit(s) ==
  LET digits == {j \in DOMAIN s : IsDigitChar(s[j])}
  IN  IF \E j \in digits : s[j] \notin DecimalChars THEN ValueError
      ELSE SetMax({DigitVal(s[j]) : j \in digits})

ParseMaxPhase(s) ==
  IF s = AllStr THEN MAX_PHASES
  ELSE IF IsDigitStr(s) THEN IntOf(s)
  ELSE IF AnyDigit(s) THEN MaxDigit(s)
  ELSE 1

\* ------------------------------------------------------------ input sets
\* phase selectors given to whole runs of execute
RunSelectors ==
  { AllStr, <<>>, <<"x">>, <<"0">>, <<"1">>, <<"2">>,
    <<"1", "2">>, <<"3", "4">>, <<"1", ",", ArabicIndicThree>>, <<SuperscriptTwo>> }

\* phase selectors given to _parse_max_phase alone
ParseSelectors == StringsUpTo(SelChars, MaxSelLen)

RepoName == <<"r">>
RepoPath == <<"/", "w", "/", "r">>
WorkDirs == { <<>>, <<"d", "/">>, <<"r", "/", "d">> }

\* confidence of a proposal; NoConf is a proposal without the key
NoConf == -1
ConfValues == {NoConf, 69, 70}
\* confidence recorded for a directory the user chose
ManualConf == 100

Proposals == [working_directory : WorkDirs, confidence : ConfValues]
NoProposal == [working_directory |-> <<>>, confidence |-> NoConf]

Filenames == {"f1", "f2"}
TocFile == "TOC.yml"
AllFiles == Filenames \cup {TocFile}
Actions == {"CREATE", "UPDATE"}
Decisions == [action : Actions, filename : Filenames]
DecisionLists == UNION {[1..k -> Decisions] : k \in 0..MaxDecisions}

\* ------------------------------------------------------- proposal checks
\* llm_result.get('confidence', 0)
ConfOf(p) == IF p.confidence = NoConf THEN 0 ELSE p.confidence

\* a plausible slip: a proposal at the threshold is rejected too
ConfidenceTooLowAtThreshold(p) == ConfOf(p) <= CONF_THRESHOLD

\* llm_result.get('confidence', 0) < 0.7
ConfidenceTooLow(p) == ConfOf(p) < CONF_THRESHOLD

\* the auto-confirm checks of _execute_phase1: the RuntimeError raised, or "none"
AutoConfirmFailure(failed, p) ==
  IF failed THEN "OracleFailure"
  ELSE IF p.working_directory = <<>> THEN "EmptySelection"
  ELSE IF ConfidenceTooLow(p) THEN "LowConfidence"
  ELSE "none"

\* the directories a user picks at the prompt
ChosenDirs == { <<"d", "/">> }

\* DirectoryConfirmation.confirm: passes the proposal through in auto-confirm
\* mode, otherwise returns the directory the user settled on
DirConfirm(auto, failed, p) ==
  IF auto THEN {p}
  ELSE {[working_directory |-> w, confidence |-> ManualConf] : w \in ChosenDirs}

\* -------------------------------------------------------- directory setup
StartsWith(s, prefix) ==
  Len(s) >= Len(prefix) /\ SubSeq(s, 1, Len(prefix)) = prefix

RECURSIVE NormalizeStrippingAll(_, _)
\* a plausible slip: the prefix is stripped as long as it is there
NormalizeStrippingAll(repo_name, working_dir) ==
  IF StartsWith(working_dir, repo_name \o <<"/">>)
  THEN NormalizeStrippingAll(repo_name,
                             SubSeq(working_dir, Len(repo_name) + 2, Len(working_dir)))
  ELSE working_dir

NormalizeWorkingDirectory(repo_name, working_dir) ==
  IF StartsWith(working_dir, repo_name \o <<"/">>)
  THEN SubSeq(working_dir, Len(repo_name) + 2, Len(working_dir))
  ELSE working_dir

\* the pieces of a path between its separators
RECURSIVE SplitPath(_)
SplitPath(s) ==
  IF \A i \in DOMAIN s : s[i] # "/" THEN <<s>>
  ELSE LET k == CHOOSE i \in DOMAIN s : s[i] = "/" /\ \A j \in 1..(i - 1) : s[j] # "/"
       IN  <<SubSeq(s, 1, k - 1)>> \o SplitPath(SubSeq(s, k + 1, Len(s)))

\* pathlib drops empty pieces and "." pieces
KeptPart(c) == c # <<>> /\ c # <<".">>

RECURSIVE JoinParts(_)
JoinParts(parts) ==
  IF parts = <<>> THEN <<>>
  ELSE IF Len(parts) = 1 THEN parts[1]
  ELSE parts[1] \o <<"/">> \o JoinParts(Tail(parts))

\* how many separators a path begins with
LeadingSlashes(s) ==
  IF s = <<>> \/ s[1] # "/" THEN 0
  ELSE IF \A i \in DOMAIN s : s[i] = "/" THEN Len(s)
  ELSE (CHOOSE i \in DOMAIN s : s[i] # "/" /\ \A j \in 1..(i - 1) : s[j] = "/") - 1

\* str(repo_path / working_dir): an absolute working_dir replaces the root;
\* otherwise its pieces are appended to the root
PathJoin(root, rel) ==
  LET tail == JoinParts(SelectSeq(SplitPath(rel), KeptPart))
  IN  IF LeadingSlashes(rel) > 0
      THEN (IF LeadingSlashes(rel) = 2 THEN <<"/", "/">> ELSE <<"/">>) \o tail
      ELSE IF tail = <<>> THEN root
      ELSE IF root[Len(root)] = "/" THEN root \o tail
      ELSE root \o <<"/">> \o tail

\* what exists() and is_dir() find at the path, "unreadable" when the path
\* cannot be examined
PathStates == {"dir", "file", "missing", "unreadable"}

\* the error _validate_directory returns, "none" for a directory;
\* "PermissionError" is the exception exists() raises on a path it cannot
\* examine
ValidateDirectory(st) ==
  IF st = "unreadable" THEN "PermissionError"
  ELSE IF st = "missing" THEN "NotFound"
  ELSE IF st # "dir" THEN "NotADirectory"
  ELSE "none"

\* the exception leaves _setup_directory and execute
SetupRaises(st) == ValidateDirectory(st) = "PermissionError"

\* _setup_directory; st is what the file system holds at the resolved path
SetupDirectory(working_dir, st) ==
  LET wd   == NormalizeWorkingDirectory(RepoName, working_dir)
      full == PathJoin(RepoPath, wd)
      err  == ValidateDirectory(st)
  IN  [success |-> err = "none", error |-> err, full_path |-> full]

\* ------------------------------------------------------------ the result
NoStrategy == [present |-> FALSE, confidence |-> 0, decisions |-> <<>>, error |-> FALSE]

\* StrategyConfirmation.confirm(None, True, str(error)): the failure strategy
ErrorStrategy == [present |-> TRUE, confidence |-> 0, decisions |-> <<>>, error |-> TRUE]

StrategyConfs == {0, 50}
Strategies ==
  [present : {TRUE}, confidence : StrategyConfs, decisions : DecisionLists, error : {FALSE}]

NoGeneration ==
  [present |-> FALSE, create_results |-> <<>>, update_results |-> <<>>, applied |-> "unset"]

NoToc ==
  [present |-> FALSE, success |-> FALSE, changes_made |-> FALSE, content |-> "",
   applied |-> "unset"]

\* what TOCProcessor.process returns
TocOutcomes ==
  [present : {TRUE}, success : BOOLEAN, changes_made : BOOLEAN,
   content : {"", "toc"}, applied : {"unset"}]

\* the fields of Result before any phase has written them
EmptyResult ==
  [working_directory |-> <<>>, confidence |-> NoConf, directory_ready |-> FALSE,
   working_directory_full_path |-> <<>>, setup_error |-> "none",
   content_strategy |-> NoStrategy, strategy_ready |-> FALSE,
   generation_results |-> NoGeneration, generation_ready |-> FALSE,
   toc_results |-> NoToc, toc_ready |-> FALSE]

CreatePhase1Result(conf, setup) ==
  [EmptyResult EXCEPT
     !.working_directory = conf.working_directory,
     !.confidence = conf.confidence,
     !.directory_ready = setup.success,
     !.working_directory_full_path = setup.full_path,
     !.setup_error = setup.error]

BoolStr(b) == IF b THEN "True" ELSE "False"

\* ------------------------------------------------------------ phase gates
\* execute: Phase 1 always runs
Gate1(mp) == TRUE

\* a plausible slip: Phase 2 is gated on the selector alone
Gate2SelectorOnly(mp, r) == mp >= 2

Gate2(mp, r) == mp >= 2 /\ r.directory_ready

\* a plausible slip: Phase 3 is gated on the selector alone
Gate3SelectorOnly(mp, r) == mp >= 3

Gate3(mp, r) == mp >= 3 /\ r.strategy_ready

\* a plausible slip: Phase 4 is not gated on generation_ready
Gate4IgnoringReadiness(mp, r, skip) == mp >= 4 /\ ~skip

\* a plausible slip: --skip-toc is not looked at
Gate4IgnoringSkip(mp, r, skip) == mp >= 4 /\ r.generation_ready

Gate4(mp, r, skip) == mp >= 4 /\ r.generation_ready /\ ~skip

\* the elif of execute: Phase 4 was asked for and --skip-toc is set
SkipBranch(mp, skip) == mp >= 4 /\ skip

\* ---------------------------------------------------------------- Phase 2
\* a plausible slip: a strategy of confidence 0 is accepted
StrategyReadyNonNegative(s) == s.confidence >= 0

\* confirmed_strategy.confidence > 0
StrategyReady(s) == s.confidence > 0

StorePhase2(r, s) ==
  [r EXCEPT !.content_strategy = s, !.strategy_ready = StrategyReady(s)]

\* ---------------------------------------------------------------- Phase 3
EntryOutcomes == [success : BOOLEAN, has_content : BOOLEAN]

GeneratedContent(action) == IF action = "CREATE" THEN "new" ELSE "upd"

\* one entry of create_results or update_results
ResultEntry(d, o) ==
  [action |-> d.action, filename |-> d.filename, success |-> o.success,
   content |-> IF o.has_content THEN GeneratedContent(d.action) ELSE ""]

IsCreate(e) == e.action = "CREATE"
IsUpdate(e) == e.action = "UPDATE"

\* ContentGenerator.process: one entry per decision, CREATE entries in
\* create_results and UPDATE entries in update_results, in decision order
Generate(decisions, outs) ==
  LET entries == [i \in DOMAIN decisions |-> ResultEntry(decisions[i], outs[i])]
  IN  [present |-> TRUE,
       create_results |-> SelectSeq(entries, IsCreate),
       update_results |-> SelectSeq(entries, IsUpdate),
       applied |-> "unset"]

StorePhase3(r, gr) ==
  [r EXCEPT !.generation_results = gr, !.generation_ready = TRUE]

\* result.get('success') and result.get('content')
Applicable(e) == e.success /\ e.content # ""

WriteOf(e) == [kind |-> e.action, filename |-> e.filename, content |-> e.content]

RECURSIVE UntilFirstFailure(_)
UntilFirstFailure(results) ==
  IF results = <<>> \/ ~Applicable(Head(results)) THEN <<>>
  ELSE <<Head(results)>> \o UntilFirstFailure(Tail(results))

\* a plausible slip: the loop stops at the first entry it cannot apply
WritesStoppingAtFailure(results) ==
  LET kept == UntilFirstFailure(results)
  IN  [i \in DOMAIN kept |-> WriteOf(kept[i])]

\* the writes of _apply_create_actions / _apply_update_actions, in order
WritesFor(results) ==
  LET kept == SelectSeq(results, Applicable)
  IN  [i \in DOMAIN kept |-> WriteOf(kept[i])]

\* a plausible slip: the CREATE results are never applied
ApplyQueueUpdatesOnly(gr) == WritesFor(gr.update_results)

\* a plausible slip: the UPDATE results are applied first
ApplyQueueUpdatesFirst(gr) == WritesFor(gr.update_results) \o WritesFor(gr.create_results)

\* _apply_generated_content: the CREATE writes, then the UPDATE writes
ApplyQueue(gr) == WritesFor(gr.create_results) \o WritesFor(gr.update_results)

\* a plausible slip: the results are marked as applied in preview mode too
AnnotateGenerationAsApplied(r, apply) ==
  [r EXCEPT !.generation_results.applied = "True"]

\* generation_results['applied'] = True / False
AnnotateGeneration(r, apply) ==
  [r EXCEPT !.generation_results.applied = BoolStr(apply)]

\* ---------------------------------------------------------------- Phase 4
\* a plausible slip: the apply flag is not looked at
TocAppliesIgnoringFlag(apply, t) == t.success /\ t.changes_made

\* self.config.apply_changes and toc_results.get('success') and
\* toc_results.get('changes_made')
TocApplies(apply, t) == apply /\ t.success /\ t.changes_made

\* _apply_toc_changes writes only a non-empty document
TocWrites(t) ==
  IF t.content = "" THEN <<>>
  ELSE <<[kind |-> "TOC", filename |-> TocFile, content |-> t.content]>>

\* a plausible slip: Phase 4 also re-annotates the generation results
StorePhase4MarkingGeneration(r, t, apply) ==
  [r EXCEPT !.toc_results = [t EXCEPT !.applied = BoolStr(TocApplies(apply, t))],
            !.toc_ready = TRUE,
            !.generation_results.applied = BoolStr(TocApplies(apply, t))]

StorePhase4(r, t, apply) ==
  [r EXCEPT !.toc_results = [t EXCEPT !.applied = BoolStr(TocApplies(apply, t))],
            !.toc_ready = TRUE]

\* ------------------------------------------------------------------ state
VARIABLES
  config,       \* the run's Config: phases, auto_confirm, apply_changes, skip_toc
  console_display, \* whether the orchestrator was given a console (self.console_display)
  pc,           \* where execute stands
  max_phase,    \* the local max_phase of execute
  llm_failed,   \* locals of _execute_phase1
  llm_result,
  confirmed,
  hasResult,    \* whether the Result object has been created
  result,       \* the Result object
  files,        \* the files under the working directory
  writes,       \* every write() done so far, in order
  applyQ,       \* the writes _apply_generated_content still has to do
  started,      \* the phases entered so far, in order
  finished,     \* the phases left so far
  caught,       \* the phases whose except clause ran
  outcome,      \* "running", "returned" or "raised"
  abort,        \* why execute raised, or "none"
  skipReports,  \* how often the --skip-toc skip was reported
  setups,       \* how often _setup_directory ran
  assigns,      \* how often each readiness flag was assigned
  dirState,     \* what _validate_directory found at the resolved path
  norm,         \* a repository name and a path with its successive normalizations
  tape,         \* what the collaborators answered, call by call, when two runs are compared
  first         \* what the earlier of two compared runs did, <<>> before it has ended

vars ==
  <<config, console_display, pc, max_phase, llm_failed, llm_result, confirmed,
    hasResult, result, files, writes, applyQ, started, finished, caught, outcome,
    abort, skipReports, setups, assigns, dirState, norm, tape, first>>

Flags == {"directory_ready", "strategy_ready", "generation_ready", "toc_ready"}
NoFile == "<absent>"
InitFiles == [f \in AllFiles |-> IF f = "f1" THEN NoFile ELSE "old"]

Configs(selectors) ==
  [phases : selectors, auto_confirm : BOOLEAN, apply_changes : BOOLEAN,
   skip_toc : BOOLEAN]

\* the state of execute at its first line
InitRun ==
  /\ pc = "start"
  /\ max_phase = 0
  /\ llm_failed = FALSE
  /\ llm_result = NoProposal
  /\ confirmed = NoProposal
  /\ hasResult = FALSE
  /\ result = EmptyResult
  /\ files = InitFiles
  /\ writes = <<>>
  /\ applyQ = <<>>
  /\ started = <<>>
  /\ finished = {}
  /\ caught = {}
  /\ outcome = "running"
  /\ abort = "none"
  /\ skipReports = 0
  /\ setups = 0
  /\ assigns = [f \in Flags |-> 0]
  /\ dirState = "unknown"

\* one run, not compared with another: the answers of the collaborators are
\* not kept
NoTape == [mode |-> "off", answers |-> <<>>]

InitWith(cfgs, consoles) ==
  /\ config \in cfgs
  /\ console_display \in consoles
  /\ InitRun
  /\ tape = NoTape
  /\ first = <<>>

\* no path is being normalized outside _setup_directory
NoNorm == [repo |-> RepoName, paths |-> <<>>]

\* one call of execute on an orchestrator that was given a console: every
\* step execute takes without a console is a step it can take with one
\* (SpecTwin has the runs without a console)
Init == InitWith(Configs(RunSelectors), {TRUE}) /\ norm = NoNorm

Assigned(flag) == [assigns EXCEPT ![flag] = @ + 1]

\* the exception leaves execute: no result is returned
Raise(why) ==
  /\ outcome' = "raised"
  /\ abort' = why
  /\ pc' = "done"

\* what a collaborator (oracle, source tree, file system, confirmation)
\* answers at the call named site
Answer(site, v) == [site |-> site, v |-> v]

\* how many of the calls are the calls the tape holds next
Matching(calls) ==
  SetMax({k \in 0..Len(calls) :
            /\ k <= Len(tape.answers)
            /\ \A i \in 1..k : tape.answers[i].site = calls[i].site})

\* the collaborators answer the calls of one step. In a single run the
\* answers are free. Of two compared runs the first keeps its answers and the
\* second is given them again, call by call, as long as it makes the calls
\* the first one made
Told(calls) ==
  CASE tape.mode = "off" -> tape' = tape
    [] tape.mode = "record" -> tape' = [tape EXCEPT !.answers = @ \o calls]
    [] tape.mode = "replay" ->
         /\ \A i \in 1..Matching(calls) : tape.answers[i].v = calls[i].v
         /\ tape' = [tape EXCEPT !.answers =
                       IF Matching(calls) = Len(calls)
                       THEN SubSeq(@, Len(calls) + 1, Len(@))
                       ELSE <<>>]

\* ---------------------------------------------------------------- execute
\* max_phase = self._parse_max_phase()
ParseStep ==
  /\ pc = "start"
  /\ IF ParseMaxPhase(config.phases) = ValueError
     THEN Raise("ValueError") /\ UNCHANGED max_phase
     ELSE /\ max_phase' = ParseMaxPhase(config.phases)
          /\ pc' = "phase1"
          /\ UNCHANGED <<outcome, abort>>
  /\ UNCHANGED <<norm, first, console_display, tape, dirState, config, llm_failed,
                 llm_result, confirmed, hasResult, result, files, writes, applyQ,
                 started, finished, caught, skipReports, setups, assigns>>

\* _execute_phase1 up to the oracle call: clone or update the repository,
\* process the materials, read the structure; any of them may raise, and so
\* may the progress display of a console. Nothing catches the exception
P1Begin ==
  /\ pc = "phase1"
  /\ IF Gate1(max_phase)
     THEN /\ started' = Append(started, 1)
          /\ \/ \E ok \in BOOLEAN :
                  /\ Told(<<Answer("p1_begin", ok)>>)
                  /\ IF ok
                     THEN pc' = "p1_detect" /\ UNCHANGED <<outcome, abort, finished>>
                     ELSE Raise("Preparation") /\ finished' = finished \cup {1}
             \/ /\ console_display
                /\ Raise("Progress")
                /\ finished' = finished \cup {1}
                /\ UNCHANGED tape
     ELSE /\ pc' = "gate2"
          /\ UNCHANGED <<started, outcome, abort, finished, tape>>
  /\ UNCHANGED <<norm, first, console_display, dirState, config, max_phase, llm_failed,
                 llm_result, confirmed, hasResult, result, files, writes, applyQ,
                 caught, skipReports, setups, assigns>>

\* _detect_directory: the oracle's proposal, or (None, True, message); with a
\* console the progress update after it may raise, outside any try
P1Detect ==
  /\ pc = "p1_detect"
  /\ \/ /\ \E failed \in BOOLEAN, p \in Proposals :
             /\ llm_failed' = failed
             /\ llm_result' = IF failed THEN NoProposal ELSE p
             /\ Told(<<Answer("p1_detect", [failed |-> failed,
                                            p |-> IF failed THEN NoProposal ELSE p])>>)
        /\ pc' = "p1_confirm"
        /\ UNCHANGED <<outcome, abort, finished>>
     \/ /\ console_display
        /\ Raise("Progress")
        /\ finished' = finished \cup {1}
        /\ UNCHANGED <<llm_failed, llm_result, tape>>
  /\ UNCHANGED <<norm, first, console_display, dirState, config, max_phase, confirmed,
                 hasResult, result, files, writes, applyQ, started, caught,
                 skipReports, setups, assigns>>

\* the auto-confirm checks, then self.dir_confirmator.confirm
P1Confirm ==
  /\ pc = "p1_confirm"
  /\ IF config.auto_confirm /\ AutoConfirmFailure(llm_failed, llm_result) # "none"
     THEN /\ Raise(AutoConfirmFailure(llm_failed, llm_result))
          /\ finished' = finished \cup {1}
          /\ UNCHANGED <<confirmed, tape>>
     ELSE /\ \E c \in DirConfirm(config.auto_confirm, llm_failed, llm_result) :
               /\ confirmed' = c
               /\ Told(<<Answer("p1_confirm", c)>>)
          /\ pc' = "p1_setup"
          /\ UNCHANGED <<outcome, abort, finished>>
  /\ UNCHANGED <<norm, first, console_display, dirState, config, max_phase, llm_failed,
                 llm_result, hasResult, result, files, writes, applyQ, started,
                 caught, skipReports, setups, assigns>>

\* _setup_directory, the phase summary of a console and
\* _create_phase1_result; Phase 1 returns the result, or the exception of
\* _setup_directory or of the summary (line 161, in no try) leaves execute
P1Setup ==
  /\ pc = "p1_setup"
  /\ \E st \in PathStates :
       /\ dirState' = st
       /\ Told(<<Answer("p1_setup", st)>>)
       /\ IF SetupRaises(st)
          THEN /\ Raise("PermissionError")
               /\ UNCHANGED <<result, hasResult, assigns>>
          ELSE \/ /\ result' = CreatePhase1Result(confirmed,
                                   SetupDirectory(confirmed.working_directory, st))
                  /\ hasResult' = TRUE
                  /\ assigns' = Assigned("directory_ready")
                  /\ pc' = "gate2"
                  /\ UNCHANGED <<outcome, abort>>
               \/ /\ console_display
                  /\ Raise("Phase1Summary")
                  /\ UNCHANGED <<result, hasResult, assigns>>
  /\ setups' = setups + 1
  /\ finished' = finished \cup {1}
  /\ llm_failed' = FALSE
  /\ llm_result' = NoProposal
  /\ confirmed' = NoProposal
  /\ UNCHANGED <<norm, first, console_display, config, max_phase, files, writes, applyQ,
                 started, caught, skipReports>>

\* if max_phase >= 2 and result.directory_ready
Gate2Step ==
  /\ pc = "gate2"
  /\ IF Gate2(max_phase, result)
     THEN pc' = "p2_run" /\ started' = Append(started, 2)
     ELSE pc' = "gate3" /\ UNCHANGED started
  /\ UNCHANGED <<norm, first, console_display, tape, dirState, config, max_phase,
                 llm_failed, llm_result, confirmed, hasResult, result, files, writes,
                 applyQ, finished, caught, outcome, abort, skipReports, setups,
                 assigns>>

\* except Exception as e: self._handle_phase2_error(result, e), which runs
\* in no try: show_error of a console (line 307) or
\* strategy_confirmator.confirm (line 309) raises and the exception leaves
\* execute with the result as it was, or the failure strategy is stored and
\* execute goes on. calls are the collaborator calls of the step that failed
HandlePhase2Error(calls) ==
  /\ caught' = caught \cup {2}
  /\ finished' = finished \cup {2}
  /\ \/ /\ console_display
        /\ Told(calls)
        /\ Raise("Phase2Handler")
        /\ UNCHANGED <<result, assigns>>
     \/ \E ok \in BOOLEAN :
          /\ Told(calls \o <<Answer("p2_handler", ok)>>)
          /\ IF ok
             THEN /\ result' = [result EXCEPT !.content_strategy = ErrorStrategy,
                                              !.strategy_ready = FALSE]
                  /\ assigns' = Assigned("strategy_ready")
                  /\ pc' = "gate3"
                  /\ UNCHANGED <<outcome, abort>>
             ELSE /\ Raise("Phase2Handler")
                  /\ UNCHANGED <<result, assigns>>

\* what _execute_phase2 can read of the chunks and of the generated
\* strategy: "ok" the chunks have a length and the summary is a string;
\* "unsliceable" the summary is None or cannot be read, so summary[:50]
\* raises (line 297); "nolen" len(chunks) raises (lines 264 and 284)
ReadOutcomes == {"ok", "unsliceable", "nolen"}

\* _execute_phase2 up to "Update result". With a console (lines 214-248):
\* discovery, strategy and confirmation give the confirmed strategy, which
\* is stored, or one of them raises, or the progress and status lines of the
\* console raise. Without a console (lines 251-253) _discover_content logs
\* len(chunks) (line 284) and _generate_strategy logs strategy.summary[:50]
\* (line 297) before the confirmation and the store, so the strategy is
\* stored only if both can be read. An exception goes to the except clause
P2Run ==
  /\ pc = "p2_run"
  /\ \/ /\ \E s \in Strategies :
             /\ Told(IF console_display
                     THEN <<Answer("p2_run", [raises |-> FALSE, s |-> s])>>
                     ELSE <<Answer("p2_run", [raises |-> FALSE, s |-> s]),
                            Answer("p2_reads", "ok")>>)
             /\ result' = StorePhase2(result, s)
        /\ assigns' = Assigned("strategy_ready")
        /\ pc' = "p2_summary"
        /\ UNCHANGED <<caught, finished, outcome, abort>>
     \/ /\ ~console_display
        /\ \E s \in Strategies, v \in ReadOutcomes \ {"ok"} :
             HandlePhase2Error(<<Answer("p2_run", [raises |-> FALSE, s |-> s]),
                                 Answer("p2_reads", v)>>)
     \/ HandlePhase2Error(<<Answer("p2_run", [raises |-> TRUE, s |-> NoStrategy])>>)
     \/ console_display /\ HandlePhase2Error(<<>>)
  /\ UNCHANGED <<norm, first, console_display, dirState, config, max_phase, llm_failed,
                 llm_result, confirmed, hasResult, files, writes, applyQ, started,
                 skipReports, setups>>

\* what the phase summary reads before the closing log line: with a console
\* len(chunks) (line 264), which has a value whether or not the generated
\* strategy's summary can be sliced; without a console nothing
SummaryReads ==
  IF console_display
  THEN { <<Answer("p2_reads", v)>> : v \in ReadOutcomes \ {"nolen"} }
  ELSE { <<>> }

\* the phase summary of a console (lines 259-268) and the closing log line,
\* which formats the confirmed strategy's summary (line 270), still inside
\* the try: they are done, or len(chunks), the console or the log line
\* raises and the except clause runs
P2Summary ==
  /\ pc = "p2_summary"
  /\ \/ /\ \E calls \in SummaryReads : Told(calls \o <<Answer("p2_log", TRUE)>>)
        /\ pc' = "gate3"
        /\ finished' = finished \cup {2}
        /\ UNCHANGED <<result, assigns, caught, outcome, abort>>
     \/ \E calls \in SummaryReads :
          HandlePhase2Error(calls \o <<Answer("p2_log", FALSE)>>)
     \/ console_display /\ HandlePhase2Error(<<Answer("p2_reads", "nolen")>>)
     \/ console_display /\ \E calls \in SummaryReads : HandlePhase2Error(calls)
  /\ UNCHANGED <<norm, first, console_display, dirState, config, max_phase, llm_failed,
                 llm_result, confirmed, hasResult, files, writes, applyQ, started,
                 skipReports, setups>>

\* if max_phase >= 3 and result.strategy_ready
Gate3Step ==
  /\ pc = "gate3"
  /\ IF Gate3(max_phase, result)
     THEN pc' = "p3_generate" /\ started' = Append(started, 3)
     ELSE pc' = "gate4" /\ UNCHANGED started
  /\ UNCHANGED <<norm, first, console_display, tape, dirState, config, max_phase,
                 llm_failed, llm_result, confirmed, hasResult, result, files, writes,
                 applyQ, finished, caught, outcome, abort, skipReports, setups,
                 assigns>>

\* except Exception as e: self._handle_phase3_error(result, e), which runs
\* in no try: show_error of a console (line 411) raises and the exception
\* leaves execute with the result as it was, or the generation fields are
\* reset and execute goes on
HandlePhase3Error ==
  /\ caught' = caught \cup {3}
  /\ finished' = finished \cup {3}
  /\ \/ /\ console_display
        /\ Raise("Phase3Handler")
        /\ UNCHANGED <<result, assigns>>
     \/ /\ result' = [result EXCEPT !.generation_results = NoGeneration,
                                    !.generation_ready = FALSE]
        /\ assigns' = Assigned("generation_ready")
        /\ pc' = "gate4"
        /\ UNCHANGED <<outcome, abort>>

\* _execute_phase3 up to "Store results": the generator returns the results,
\* which are stored together with generation_ready = True, or it raises, or
\* the progress display of a console raises (lines 324-336); an exception
\* goes to the except clause
P3Generate ==
  /\ pc = "p3_generate"
  /\ \/ /\ \E outs \in [DOMAIN result.content_strategy.decisions -> EntryOutcomes] :
             LET gr == Generate(result.content_strategy.decisions, outs)
             IN  /\ Told(<<Answer("p3_generate", [raises |-> FALSE, outs |-> outs])>>)
                 /\ result' = StorePhase3(result, gr)
                 /\ applyQ' = IF config.apply_changes THEN ApplyQueue(gr) ELSE <<>>
        /\ assigns' = Assigned("generation_ready")
        /\ pc' = "p3_apply"
        /\ UNCHANGED <<caught, finished, outcome, abort>>
     \/ /\ Told(<<Answer("p3_generate", [raises |-> TRUE, outs |-> <<>>])>>)
        /\ HandlePhase3Error
        /\ UNCHANGED applyQ
     \/ /\ console_display
        /\ HandlePhase3Error
        /\ UNCHANGED <<applyQ, tape>>
  /\ UNCHANGED <<norm, first, console_display, dirState, config, max_phase, llm_failed,
                 llm_result, confirmed, hasResult, files, writes, started,
                 skipReports, setups>>

\* one _create_file or _update_file: mkdir and write succeed, or one of them
\* raises and the except clause of _execute_phase3 runs
P3ApplyWrite ==
  /\ pc = "p3_apply"
  /\ applyQ # <<>>
  /\ \/ /\ Told(<<Answer("p3_write", TRUE)>>)
        /\ files' = [files EXCEPT ![Head(applyQ).filename] = Head(applyQ).content]
        /\ writes' = Append(writes, Head(applyQ))
        /\ applyQ' = Tail(applyQ)
        /\ UNCHANGED <<result, caught, finished, pc, assigns, outcome, abort>>
     \/ /\ Told(<<Answer("p3_write", FALSE)>>)
        /\ HandlePhase3Error
        /\ applyQ' = <<>>
        /\ UNCHANGED <<files, writes>>
  /\ UNCHANGED <<norm, first, console_display, dirState, config, max_phase, llm_failed,
                 llm_result, confirmed, hasResult, started, skipReports, setups>>

\* generation_results['applied'] = True / False, once every write is done
P3Annotate ==
  /\ pc = "p3_apply"
  /\ applyQ = <<>>
  /\ result' = AnnotateGeneration(result, config.apply_changes)
  /\ pc' = "p3_summary"
  /\ UNCHANGED <<norm, first, console_display, tape, dirState, config, max_phase,
                 llm_failed, llm_result, confirmed, hasResult, files, writes, applyQ,
                 started, finished, caught, outcome, abort, skipReports, setups,
                 assigns>>

\* the status line and the phase summary of a console (lines 359-375) and
\* _log_generation_summary, which reads the results (line 378), still inside
\* the try: they are done, or one of them raises and the except clause runs
P3Summary ==
  /\ pc = "p3_summary"
  /\ \/ /\ Told(<<Answer("p3_summary", TRUE)>>)
        /\ pc' = "gate4"
        /\ finished' = finished \cup {3}
        /\ UNCHANGED <<result, assigns, caught, outcome, abort>>
     \/ /\ Told(<<Answer("p3_summary", FALSE)>>)
        /\ HandlePhase3Error
     \/ /\ console_display
        /\ HandlePhase3Error
        /\ UNCHANGED tape
  /\ UNCHANGED <<norm, first, console_display, dirState, config, max_phase, llm_failed,
                 llm_result, confirmed, hasResult, files, writes, applyQ, started,
                 skipReports, setups>>

\* if max_phase >= 4 and result.generation_ready and not self.config.skip_toc
\* ... elif max_phase >= 4 and self.config.skip_toc: the skip is reported, or
\* show_status of a console (line 73, in no try) raises
Gate4Step ==
  /\ pc = "gate4"
  /\ IF Gate4(max_phase, result, config.skip_toc)
     THEN /\ pc' = "p4_run"
          /\ started' = Append(started, 4)
          /\ UNCHANGED <<skipReports, outcome, abort>>
     ELSE IF SkipBranch(max_phase, config.skip_toc)
     THEN \/ /\ skipReports' = skipReports + 1
             /\ pc' = "return"
             /\ UNCHANGED <<started, outcome, abort>>
          \/ /\ console_display
             /\ Raise("SkipReport")
             /\ UNCHANGED <<started, skipReports>>
     ELSE /\ pc' = "return"
          /\ UNCHANGED <<started, skipReports, outcome, abort>>
  /\ UNCHANGED <<norm, first, console_display, tape, dirState, config, max_phase,
                 llm_failed, llm_result, confirmed, hasResult, result, files, writes,
                 applyQ, finished, caught, setups, assigns>>

\* except Exception as e: self._handle_phase4_error(result, e), which runs
\* in no try: show_error of a console (line 633) raises and the exception
\* leaves execute with the result as it was, or the TOC fields are reset and
\* execute goes on
HandlePhase4Error ==
  /\ caught' = caught \cup {4}
  /\ finished' = finished \cup {4}
  /\ \/ /\ console_display
        /\ Raise("Phase4Handler")
        /\ UNCHANGED <<result, assigns>>
     \/ /\ result' = [result EXCEPT !.toc_results = NoToc, !.toc_ready = FALSE]
        /\ assigns' = Assigned("toc_ready")
        /\ pc' = "return"
        /\ UNCHANGED <<outcome, abort>>

\* _execute_phase4 up to "Update result": the TOC processor raises, or it
\* returns toc_results; then, if TocApplies, _apply_toc_changes writes the
\* document (write may raise, and so may the log of entries_added at line 626
\* and the status line of a console at line 551, with the document written);
\* then the result is updated. The progress and status lines of a console
\* may raise without a write as well. An exception goes to the except clause
P4Run ==
  /\ pc = "p4_run"
  /\ \/ /\ \E t \in TocOutcomes :
             /\ Told(<<Answer("p4_run", [answer |-> "returns", t |-> t])>>)
             /\ result' = StorePhase4(result, t, config.apply_changes)
             /\ IF TocApplies(config.apply_changes, t) /\ TocWrites(t) # <<>>
                THEN /\ files' = [files EXCEPT ![TocFile] = t.content]
                     /\ writes' = writes \o TocWrites(t)
                ELSE UNCHANGED <<files, writes>>
        /\ assigns' = Assigned("toc_ready")
        /\ pc' = "p4_summary"
        /\ UNCHANGED <<caught, finished, outcome, abort>>
     \/ /\ Told(<<Answer("p4_run", [answer |-> "raises", t |-> NoToc])>>)
        /\ HandlePhase4Error
        /\ UNCHANGED <<files, writes>>
     \/ /\ \E t \in TocOutcomes :
             /\ TocApplies(config.apply_changes, t) /\ TocWrites(t) # <<>>
             /\ Told(<<Answer("p4_run", [answer |-> "write raises", t |-> t])>>)
        /\ HandlePhase4Error
        /\ UNCHANGED <<files, writes>>
     \/ /\ \E t \in TocOutcomes :
             /\ TocApplies(config.apply_changes, t) /\ TocWrites(t) # <<>>
             /\ \/ Told(<<Answer("p4_run", [answer |-> "log raises", t |-> t])>>)
                \/ /\ console_display
                   /\ Told(<<Answer("p4_run", [answer |-> "returns", t |-> t])>>)
             /\ files' = [files EXCEPT ![TocFile] = t.content]
             /\ writes' = writes \o TocWrites(t)
        /\ HandlePhase4Error
     \/ /\ console_display
        /\ HandlePhase4Error
        /\ UNCHANGED <<files, writes, tape>>
  /\ UNCHANGED <<norm, first, console_display, dirState, config, max_phase, llm_failed,
                 llm_result, confirmed, hasResult, applyQ, started, skipReports,
                 setups>>

\* the phase summary of a console (lines 579-585, with len() of
\* entries_added at line 580) and the closing log line of _execute_phase4,
\* still inside the try: they are done, or the console's part raises and the
\* except clause runs; without a console nothing here raises
P4Summary ==
  /\ pc = "p4_summary"
  /\ \/ /\ pc' = "return"
        /\ finished' = finished \cup {4}
        /\ UNCHANGED <<result, assigns, caught, outcome, abort>>
     \/ /\ console_display
        /\ HandlePhase4Error
  /\ UNCHANGED <<norm, first, console_display, tape, dirState, config, max_phase,
                 llm_failed, llm_result, confirmed, hasResult, files, writes, applyQ,
                 started, skipReports, setups>>

\* return result
Return ==
  /\ pc = "return"
  /\ outcome' = "returned"
  /\ pc' = "done"
  /\ UNCHANGED <<norm, first, console_display, tape, dirState, config, max_phase,
                 llm_failed, llm_result, confirmed, hasResult, result, files, writes,
                 applyQ, started, finished, caught, abort, skipReports, setups,
                 assigns>>

Next ==
  \/ ParseStep
  \/ P1Begin
  \/ P1Detect
  \/ P1Confirm
  \/ P1Setup
  \/ Gate2Step
  \/ P2Run
  \/ P2Summary
  \/ Gate3Step
  \/ P3Generate
  \/ P3ApplyWrite
  \/ P3Annotate
  \/ P3Summary
  \/ Gate4Step
  \/ P4Run
  \/ P4Summary
  \/ Return

Spec == Init /\ [][Next]_vars

\* execute is one sequential call: a step that can be taken is taken, every
\* call to a collaborator returning or raising
SpecLive == Init /\ [][Next]_vars /\ WF_vars(Next)

\* two calls of execute compared: the first on an orchestrator with a
\* console, the second on one constructed with console_display=None, with the
\* same configuration, the same files and the same answers of the
\* collaborators
TwinConfigs ==
  [phases : {AllStr}, auto_confirm : {TRUE}, apply_changes : {TRUE},
   skip_toc : BOOLEAN]

InitTwin ==
  /\ config \in TwinConfigs
  /\ console_display = TRUE
  /\ InitRun
  /\ tape = [mode |-> "record", answers |-> <<>>]
  /\ first = <<>>
  /\ norm = NoNorm

\* execute is entered anew: its locals and the record of what the run did are
\* those of InitRun, and the files are what they were before the first call
Restarted ==
  /\ pc' = "start"
  /\ max_phase' = 0
  /\ llm_failed' = FALSE
  /\ llm_result' = NoProposal
  /\ confirmed' = NoProposal
  /\ hasResult' = FALSE
  /\ result' = EmptyResult
  /\ files' = InitFiles
  /\ writes' = <<>>
  /\ applyQ' = <<>>
  /\ started' = <<>>
  /\ finished' = {}
  /\ caught' = {}
  /\ outcome' = "running"
  /\ abort' = "none"
  /\ skipReports' = 0
  /\ setups' = 0
  /\ assigns' = [f \in Flags |-> 0]
  /\ dirState' = "unknown"

\* the first call has ended; the second starts from the state of a new
\* orchestrator without a console
SecondRun ==
  /\ pc = "done"
  /\ tape.mode = "record"
  /\ first' = <<[started |-> started, outcome |-> outcome, hasResult |-> hasResult,
                 result |-> result, writes |-> writes]>>
  /\ tape' = [tape EXCEPT !.mode = "replay"]
  /\ console_display' = FALSE
  /\ Restarted
  /\ UNCHANGED <<config, norm>>

NextTwin == Next \/ SecondRun

SpecTwin == InitTwin /\ [][NextTwin]_vars

\* _parse_max_phase alone, over every selector of at most MaxSelLen characters
InitParse ==
  InitWith([phases : ParseSelectors, auto_confirm : {FALSE}, apply_changes : {FALSE},
            skip_toc : {FALSE}], {FALSE})
  /\ norm = NoNorm

NextParse == ParseStep

SpecParse == InitParse /\ [][NextParse]_vars

\* _normalize_working_directory alone: repository names and paths of at most
\* MaxPathLen characters, the function applied to the path and then to its
\* own results
PathChars == {"r", "d", "/"}
NormRepoNames == { <<"r">>, <<"r", "d">> }
NormPaths == StringsUpTo(PathChars, MaxPathLen)

InitNorm ==
  /\ InitWith([phases : {AllStr}, auto_confirm : {FALSE}, apply_changes : {FALSE},
               skip_toc : {FALSE}], {FALSE})
  /\ norm \in [repo : NormRepoNames, paths : {<<p>> : p \in NormPaths}]

NormalizeStep ==
  /\ norm.paths # <<>>
  /\ Len(norm.paths) <= MaxApplications
  /\ norm' = [norm EXCEPT !.paths =
                Append(@, NormalizeWorkingDirectory(norm.repo, norm.paths[Len(norm.paths)]))]
  /\ UNCHANGED <<config, console_display, pc, max_phase, llm_failed, llm_result,
                 confirmed, hasResult, result, files, writes, applyQ, started,
                 finished, caught, outcome, abort, skipReports, setups, assigns,
                 dirState, tape, first>>

NextNorm == NormalizeStep

SpecNorm == InitNorm /\ [][NextNorm]_vars

\* ================================================================= claims
Range(s) == {s[i] : i \in DOMAIN s}

\* the readiness flag Phase n is gated on
PrevReady(n, r) ==
  CASE n = 2 -> r.directory_ready
    [] n = 3 -> r.strategy_ready
    [] n = 4 -> r.generation_ready

\* C1: Phase n (n = 2, 3, 4) starts only in a step taken with max_phase >= n
\* and the readiness flag of Phase n-1 True, and Phase 4 only with skip_toc
\* not set.
C1_GateRespected ==
  [][\A n \in 2..4 :
       (n \notin Range(started) /\ n \in Range(started'))
         => /\ max_phase >= n
            /\ PrevReady(n, result)
            /\ (n = 4 => ~config.skip_toc)]_vars

C1_Witness == Range(started) = {1, 2, 3, 4}

RECURSIVE Pow10(_)
Pow10(k) == IF k = 0 THEN 1 ELSE 10 * Pow10(k - 1)

RECURSIVE SumOver(_, _)
SumOver(f, S) ==
  IF S = {} THEN 0
  ELSE LET x == CHOOSE y \in S : TRUE IN f[x] + SumOver(f, S \ {x})

\* the number a string of decimal digits denotes
DecimalValue(s) ==
  SumOver([i \in DOMAIN s |-> DigitVal(s[i]) * Pow10(Len(s) - i)], DOMAIN s)

DigitsIn(s) == {DigitVal(c) : c \in Range(s) \cap DecimalChars}

\* C2: for every selector _parse_max_phase returns a phase number: MAX_PHASES
\* for "all", the integer value of a pure digit string, the largest digit of
\* a mixed string with a digit in it, and 1 for a string without any digit
\* (the empty string included).
C2_ParseMaxPhase ==
  pc # "start" =>
    /\ outcome = "running"
    /\ LET s == config.phases IN
         /\ (s = AllStr) => max_phase = MAX_PHASES
         /\ (s # <<>> /\ Range(s) \subseteq DigitChars) => max_phase = DecimalValue(s)
         /\ (Range(s) \cap DigitChars # {} /\ ~(Range(s) \subseteq DigitChars))
              => /\ max_phase \in DigitsIn(s)
                 /\ \A d \in DigitsIn(s) : d <= max_phase
         /\ (Range(s) \cap DigitChars = {} /\ s # AllStr) => max_phase = 1

\* C3: for a selector of several digits no phase numbered above its largest
\* digit ever executes.
C3_LargestDigitCaps ==
  (Len(config.phases) >= 2 /\ Range(config.phases) \subseteq DigitChars)
    => \A p \in Range(started) : \A d \in DigitsIn(config.phases) :
         (\A e \in DigitsIn(config.phases) : e <= d) => p <= d

\* C4: Phase 1 executes exactly once and first, whatever the selector; the
\* phases execute at most once each, in increasing order, and a phase starts
\* only after the phase started before it has finished.
C4_PhaseOrder ==
  /\ (pc \notin {"start", "phase1"}) => (started # <<>> /\ started[1] = 1)
  /\ \A i, j \in DOMAIN started : i < j => started[i] < started[j]
  /\ \A i \in DOMAIN started : i < Len(started) => started[i] \in finished
  /\ finished \subseteq Range(started)

\* the fatal errors of the headless confirmation
ConfirmAborts == {"OracleFailure", "EmptySelection", "LowConfidence"}

\* what the claim calls an unacceptable proposal
Rejected(failed, p) ==
  \/ failed
  \/ p.working_directory = <<>>
  \/ (IF p.confidence = NoConf THEN 0 ELSE p.confidence) < 70

\* C5: in auto-confirm mode the confirmation step of Phase 1 raises when the
\* oracle raised, when the proposed working_directory is empty or absent, or
\* when the confidence (0 when absent) is below 0.70, and it goes on for any
\* other proposal, one of confidence exactly 0.70 included; once it has
\* raised there is no result, no directory setup and no phase but Phase 1.
C5_HeadlessAbort ==
  /\ []((outcome = "raised" /\ abort \in ConfirmAborts) =>
          /\ ~hasResult
          /\ setups = 0
          /\ Range(started) = {1}
          /\ pc = "done")
  /\ [][(pc = "p1_confirm" /\ config.auto_confirm) =>
          IF Rejected(llm_failed, llm_result)
          THEN outcome' = "raised" /\ abort' \in ConfirmAborts
          ELSE outcome' = "running" /\ pc' = "p1_setup" /\ confirmed' = llm_result]_vars

C5_Witness ==
  /\ config.auto_confirm
  /\ outcome = "raised"
  /\ abort = "LowConfidence"
  /\ llm_result.confidence = NoConf

\* C6: once execute has returned from a run in which Phase 2 executed,
\* strategy_ready is True exactly when the stored content_strategy has a
\* confidence above 0.
C6_StrategyReadyIffConfident ==
  (outcome = "returned" /\ 2 \in Range(started))
    => (result.strategy_ready <=> result.content_strategy.confidence > 0)

C6_Witness ==
  /\ outcome = "returned"
  /\ 2 \in Range(started)
  /\ 2 \notin caught
  /\ result.content_strategy.confidence = 0
  /\ ~result.strategy_ready

\* C7: when Phase 2 raises, the exception stays inside the phase: the result
\* has strategy_ready False and a failure strategy of confidence 0 carrying
\* the error, Phases 3 and 4 do not execute, and execute returns the result.
C7_Phase2Contained ==
  2 \in caught =>
    /\ ~result.strategy_ready
    /\ result.content_strategy.present
    /\ result.content_strategy.confidence = 0
    /\ result.content_strategy.error
    /\ 3 \notin Range(started)
    /\ 4 \notin Range(started)
    /\ hasResult
    /\ outcome # "raised"
    /\ (pc = "done" => outcome = "returned")

FlagPhase(f) ==
  CASE f = "directory_ready" -> 1
    [] f = "strategy_ready" -> 2
    [] f = "generation_ready" -> 3
    [] f = "toc_ready" -> 4

\* C8: each readiness flag is assigned at most once and is False at every
\* point before its phase has completed.
C8_FlagsSetOnceAtCompletion ==
  \A f \in Flags :
    /\ assigns[f] <= 1
    /\ (FlagPhase(f) \notin finished) => ~result[f]

\* C9: when generation or the application of the generated files raises in
\* Phase 3, the exception stays inside the phase: generation_results is None,
\* generation_ready is False, Phase 4 does not execute, and execute returns
\* the result.
C9_Phase3Contained ==
  3 \in caught =>
    /\ ~result.generation_results.present
    /\ ~result.generation_ready
    /\ 4 \notin Range(started)
    /\ hasResult
    /\ outcome # "raised"
    /\ (pc = "done" => outcome = "returned")

AllEntries(gr) == gr.create_results \o gr.update_results

\* C10: when Phase 3 ends without an exception, generation_ready is True
\* whatever the entries' success markers are; in apply mode every entry that
\* succeeded with content has been written although other entries failed; and
\* Phase 4 is entered when it is asked for and not skipped.
C10_PartialFailuresDoNotFailPhase ==
  (3 \in finished /\ 3 \notin caught) =>
    /\ result.generation_ready
    /\ config.apply_changes =>
         \A i \in DOMAIN AllEntries(result.generation_results) :
           LET e == AllEntries(result.generation_results)[i] IN
             (e.success /\ e.content # "") =>
               \E k \in DOMAIN writes :
                 /\ writes[k].kind = e.action
                 /\ writes[k].filename = e.filename
                 /\ writes[k].content = e.content
    /\ (max_phase >= 4 /\ ~config.skip_toc /\ pc \in {"p4_run", "p4_summary", "return", "done"})
         => 4 \in Range(started)

C10_Witness ==
  /\ 3 \in finished
  /\ 3 \notin caught
  /\ config.apply_changes
  /\ Len(result.generation_results.create_results) = 2
  /\ ~result.generation_results.create_results[1].success
  /\ result.generation_results.create_results[2].success
  /\ Len(writes) >= 1
  /\ writes[1].filename = result.generation_results.create_results[2].filename
  /\ 4 \in Range(started)

\* what the claims call an entry that is applied
Written(e) == e.success /\ e.content # ""

\* C11: in preview mode no file is written by any phase, and the applied
\* annotations of generation_results and toc_results, where the records
\* exist, are False.
C11_PreviewWritesNothing ==
  ~config.apply_changes =>
    /\ writes = <<>>
    /\ files = InitFiles
    /\ result.generation_results.applied # "True"
    /\ result.toc_results.applied # "True"
    /\ (outcome = "returned" /\ result.generation_results.present)
         => result.generation_results.applied = "False"
    /\ (outcome = "returned" /\ result.toc_results.present)
         => result.toc_results.applied = "False"

C11_Witness ==
  /\ ~config.apply_changes
  /\ outcome = "returned"
  /\ 4 \in finished
  /\ 4 \notin caught
  /\ result.toc_results.success
  /\ result.toc_results.changes_made
  /\ result.toc_results.content = "toc"
  /\ \E i \in DOMAIN result.generation_results.create_results :
       Written(result.generation_results.create_results[i])

\* C12, as stated: in apply mode, once Phase 3 has executed, the file of every
\* CREATE result with success=True holds that result's generated content.
C12_CreateRoundTrip ==
  (config.apply_changes /\ 3 \in finished) =>
    \A i \in DOMAIN result.generation_results.create_results :
      LET e == result.generation_results.create_results[i] IN
        e.success => files[e.filename] = e.content

\* C12, amended: in apply mode, once Phase 3 has completed without an
\* exception, every CREATE result with success=True and non-empty content has
\* been written with its generated content, and its file holds that content
\* unless a later write went to the same file.
C12_CreateRoundTripAmended ==
  (config.apply_changes /\ 3 \in finished /\ 3 \notin caught) =>
    \A i \in DOMAIN result.generation_results.create_results :
      LET e == result.generation_results.create_results[i] IN
        Written(e) =>
          \E k \in DOMAIN writes :
            /\ writes[k].kind = "CREATE"
            /\ writes[k].filename = e.filename
            /\ writes[k].content = e.content
            /\ (\A k2 \in DOMAIN writes : k2 > k => writes[k2].filename # e.filename)
                 => files[e.filename] = e.content

C12_Witness ==
  /\ config.apply_changes
  /\ 3 \in finished
  /\ 3 \notin caught
  /\ Len(result.generation_results.create_results) >= 1
  /\ result.generation_results.create_results[1].filename = "f1"
  /\ Written(result.generation_results.create_results[1])
  /\ files["f1"] = "new"

IsPrefix(a, b) == Len(a) <= Len(b) /\ SubSeq(b, 1, Len(a)) = a

IsCreateWrite(w) == w.kind = "CREATE"
IsUpdateWrite(w) == w.kind = "UPDATE"

\* the writes a list of results asks for, in the order of the list
ExpectedWrites(results) ==
  LET kept == SelectSeq(results, Written)
  IN  [i \in DOMAIN kept |->
         [kind |-> kept[i].action, filename |-> kept[i].filename,
          content |-> kept[i].content]]

\* C13: every write for a CREATE result happens before the first write for an
\* UPDATE result, and the writes of each group happen in the order of its
\* result list.
C13_CreatesBeforeUpdates ==
  /\ \A i, j \in DOMAIN writes :
       (writes[i].kind = "UPDATE" /\ writes[j].kind = "CREATE") => j < i
  /\ result.generation_results.present =>
       /\ IsPrefix(SelectSeq(writes, IsCreateWrite),
                   ExpectedWrites(result.generation_results.create_results))
       /\ IsPrefix(SelectSeq(writes, IsUpdateWrite),
                   ExpectedWrites(result.generation_results.update_results))
  /\ (config.apply_changes /\ 3 \in finished /\ 3 \notin caught) =>
       /\ SelectSeq(writes, IsCreateWrite)
            = ExpectedWrites(result.generation_results.create_results)
       /\ SelectSeq(writes, IsUpdateWrite)
            = ExpectedWrites(result.generation_results.update_results)

C13_Witness ==
  /\ Len(result.content_strategy.decisions) = 2
  /\ result.content_strategy.decisions[1].action = "UPDATE"
  /\ result.content_strategy.decisions[2].action = "CREATE"
  /\ Len(writes) >= 2
  /\ writes[1].kind = "CREATE"
  /\ writes[2].kind = "UPDATE"
  /\ 3 \in finished

\* C14: once Phase 4 has completed without an exception, toc_results.applied
\* is True exactly when apply mode is on and the TOC result has success and
\* changes_made, and exactly when TOC.yml has been overwritten with the
\* result's content.
C14_TocAppliedIffWritten ==
  (4 \in finished /\ 4 \notin caught) =>
    /\ (result.toc_results.applied = "True")
         <=> (config.apply_changes /\ result.toc_results.success
              /\ result.toc_results.changes_made)
    /\ (result.toc_results.applied = "True")
         <=> /\ \E k \in DOMAIN writes :
                  writes[k].filename = TocFile /\ writes[k].content = result.toc_results.content
             /\ files[TocFile] = result.toc_results.content

\* C15: with max_phase >= 4 and --skip-toc set, Phase 4 never executes,
\* toc_ready stays False and toc_results unset, the skip is never reported
\* twice nor as a failure, and a run that returns has reported it once,
\* whether or not generation_ready is True.
C15_SkipTocIsDeliberate ==
  (max_phase >= 4 /\ config.skip_toc) =>
    /\ 4 \notin Range(started)
    /\ 4 \notin caught
    /\ ~result.toc_ready
    /\ ~result.toc_results.present
    /\ skipReports <= 1
    /\ (outcome = "returned") => skipReports = 1

C15_Witness ==
  /\ max_phase >= 4
  /\ config.skip_toc
  /\ outcome = "returned"
  /\ skipReports = 1
  /\ ~result.generation_ready
  /\ 3 \in caught

\* C16: once Phase 2 has left strategy_ready False, no later step starts a
\* phase, changes a field of the result or writes a file.
C16_NotReadyFreezesResult ==
  [][(2 \in finished /\ ~result.strategy_ready) =>
       /\ result' = result
       /\ started' = started
       /\ writes' = writes
       /\ files' = files]_vars

C16_Witness ==
  /\ config.phases = <<"3", "4">>
  /\ 2 \in finished
  /\ ~result.strategy_ready
  /\ outcome = "returned"

\* the readiness flag and per-item success markers a caller sees for Phase 3
GenerationMarkers(r) ==
  [ready |-> r.generation_ready,
   items |-> [i \in DOMAIN r.generation_results.create_results |->
                r.generation_results.create_results[i].success]
             \o [i \in DOMAIN r.generation_results.update_results |->
                   r.generation_results.update_results[i].success]]

\* the readiness flag and success marker a caller sees for Phase 4
TocMarkers(r) ==
  [ready |-> r.toc_ready,
   items |-> IF r.toc_results.present THEN <<r.toc_results.success>> ELSE <<>>]

\* C17: the returned result tells a phase that never started from one that
\* started and failed: after Phase 3 (Phase 4) has failed with an exception,
\* its readiness flag or success markers differ from those of a result whose
\* Phase 3 (Phase 4) never started.
C17_FailureDistinguishable ==
  outcome = "returned" =>
    /\ 3 \in caught => GenerationMarkers(result) # GenerationMarkers(EmptyResult)
    /\ 4 \in caught => TocMarkers(result) # TocMarkers(EmptyResult)

\* C18: a run without the console does what the run with the console did,
\* the configuration, the files and the answers of the collaborators being
\* the same: it executes the same phases, ends the same way with the same
\* result fields and readiness flags, and performs the same file writes.
C18_ConsoleIsObservational ==
  (first # <<>> /\ pc = "done") =>
    /\ started = first[1].started
    /\ outcome = first[1].outcome
    /\ hasResult = first[1].hasResult
    /\ result = first[1].result
    /\ writes = first[1].writes

\* the path the confirmed working directory resolves to
ResolvedPath(wd) ==
  LET k == Len(RepoName) + 1
      rel == IF Len(wd) >= k /\ SubSeq(wd, 1, k) = RepoName \o <<"/">>
             THEN SubSeq(wd, k + 1, Len(wd)) ELSE wd
  IN  PathJoin(RepoPath, rel)

\* C19: when the resolved path does not exist or is not a directory, the run
\* does not abort: the result has directory_ready False, setup_error naming
\* the failure and working_directory_full_path the resolved path, and no phase
\* after Phase 1 executes.
C19_SetupFailureContained ==
  dirState \in {"missing", "file"} =>
    /\ outcome # "raised"
    /\ hasResult
    /\ ~result.directory_ready
    /\ result.setup_error = (IF dirState = "missing" THEN "NotFound" ELSE "NotADirectory")
    /\ result.working_directory_full_path = ResolvedPath(result.working_directory)
    /\ Range(started) = {1}
    /\ (pc = "done" => outcome = "returned")

HasRepoPrefix(repo, p) ==
  Len(p) > Len(repo) /\ \A i \in 1..Len(repo) : p[i] = repo[i] /\ p[Len(repo) + 1] = "/"

\* every application removes exactly one leading "<repo-name>/" or nothing
StripsOnePrefix ==
  \A i \in DOMAIN norm.paths :
    i < Len(norm.paths) =>
      IF HasRepoPrefix(norm.repo, norm.paths[i])
      THEN norm.paths[i] = norm.repo \o <<"/">> \o norm.paths[i + 1]
      ELSE norm.paths[i + 1] = norm.paths[i]

\* C20, as stated: _normalize_working_directory removes exactly one leading
\* "<repo-name>/" when the path starts with it, returns any other path
\* unchanged, and applied to its own output returns that output unchanged.
C20_NormalizeIdempotent ==
  /\ StripsOnePrefix
  /\ Len(norm.paths) >= 3 => norm.paths[3] = norm.paths[2]

\* C20, amended: _normalize_working_directory removes exactly one leading
\* "<repo-name>/" when the path starts with it and returns any other path
\* unchanged; applied to its own output it returns that output unchanged
\* unless the output starts with "<repo-name>/" again.
C20_NormalizeAmended ==
  /\ StripsOnePrefix
  /\ (Len(norm.paths) >= 3 /\ ~HasRepoPrefix(norm.repo, norm.paths[2]))
       => norm.paths[3] = norm.paths[2]

C20_Witness ==
  /\ norm.repo = <<"r">>
  /\ norm.paths = << <<"r", "/", "r", "/", "d">>, <<"r", "/", "d">>, <<"d">> >>

\* the fields of the result written by Phases 1 to 3
Phase123Fields(r) ==
  <<r.working_directory, r.confidence, r.directory_ready,
    r.working_directory_full_path, r.setup_error, r.content_strategy,
    r.strategy_ready, r.generation_results, r.generation_ready>>

\* C21: once Phase 1 has created the result, execute terminates and returns
\* it, whatever Phases 2 to 4 raise: the result is created once and no
\* exception leaves execute; and the step on which Phase 4 fails leaves
\* toc_results unset and toc_ready False and changes no field written by
\* Phases 1 to 3.
C21_ReturnsTheOneRecord ==
  /\ hasResult ~> (outcome = "returned")
  /\ [](hasResult => (outcome # "raised" /\ setups = 1))
  /\ [][/\ hasResult => hasResult'
        /\ (4 \in caught' /\ 4 \notin caught) =>
             /\ ~result'.toc_results.present
             /\ ~result'.toc_ready
             /\ Phase123Fields(result') = Phase123Fields(result)]_vars

\* C22: in every result execute returns, toc_ready implies generation_ready,
\* generation_ready implies strategy_ready, and strategy_ready implies
\* directory_ready.
C22_ReadinessChain ==
  outcome = "returned" =>
    /\ result.toc_ready => result.generation_ready
    /\ result.generation_ready => result.strategy_ready
    /\ result.strategy_ready => result.directory_ready

C22_Witness ==
  /\ outcome = "returned"
  /\ result.toc_ready
  /\ result.generation_ready
  /\ result.strategy_ready
  /\ result.directory_ready

\* the fields of the result each phase owns
Phase1Fields(r) ==
  <<r.working_directory, r.confidence, r.directory_ready,
    r.working_directory_full_path, r.setup_error>>
Phase2Fields(r) == <<r.content_strategy, r.strategy_ready>>
Phase3Fields(r) == <<r.generation_results, r.generation_ready>>
Phase4Fields(r) == <<r.toc_results, r.toc_ready>>

\* the phase execute is inside, 0 between phases
RunningPhase ==
  IF started = <<>> \/ started[Len(started)] \in finished THEN 0
  ELSE started[Len(started)]

\* C23: every step of Phase 2 leaves all fields but content_strategy and
\* strategy_ready as they are, every step of Phase 3 all but
\* generation_results and generation_ready, every step of Phase 4 all but
\* toc_results and toc_ready; once Phase 1 has created the result no step
\* changes its Phase 1 fields, and between phases no field changes; on the
\* success path and on the error path alike.
C23_PhasesWriteOwnFields ==
  [][/\ hasResult => Phase1Fields(result') = Phase1Fields(result)
     /\ (hasResult /\ RunningPhase # 2) => Phase2Fields(result') = Phase2Fields(result)
     /\ (hasResult /\ RunningPhase # 3) => Phase3Fields(result') = Phase3Fields(result)
     /\ (hasResult /\ RunningPhase # 4) => Phase4Fields(result') = Phase4Fields(result)]_vars

C23_Witness ==
  /\ outcome = "returned"
  /\ {2, 3, 4} \subseteq finished
  /\ 4 \in caught
  /\ result.generation_results.present
  /\ result.generation_results.applied = "True"
  /\ result.strategy_ready

\* C24: a run in which Phase 3 has written a file returns a result whose
\* generation_results is there and is annotated applied=True.
C24_WrittenFilesAreRecorded ==
  (outcome = "returned"
     /\ \E k \in DOMAIN writes : writes[k].kind \in {"CREATE", "UPDATE"}) =>
    /\ result.generation_results.present
    /\ result.generation_results.applied = "True"

\* C25: the working_directory of the result, joined to the source root, gives
\* working_directory_full_path.
C25_WorkingDirectoryMatchesFullPath ==
  hasResult =>
    PathJoin(RepoPath, result.working_directory) = result.working_directory_full_path

\* C26: in every result execute returns, generation_ready is True exactly
\* when generation_results is there, and then its applied flag equals the
\* apply flag; toc_ready is True exactly when toc_results is there, and then
\* it carries an applied flag, whatever its success.
C26_ReadyIffResults ==
  outcome = "returned" =>
    /\ result.generation_ready <=> result.generation_results.present
    /\ result.generation_ready =>
         result.generation_results.applied = (IF config.apply_changes THEN "True" ELSE "False")
    /\ result.toc_ready <=> result.toc_results.present
    /\ result.toc_ready => result.toc_results.applied \in {"True", "False"}

C26_Witness ==
  /\ outcome = "returned"
  /\ result.generation_ready
  /\ result.generation_results.applied = "False"
  /\ result.toc_ready
  /\ ~result.toc_results.success
  /\ result.toc_results.applied = "False"

====
